---- MODULE Spec2Model ----
(***************************************************************************)
(* A model of uwa.py: the scraper of the lecture-capture directory         *)
(* listings and the writer of units and lecture records to the remote      *)
(* JSON store.                                                             *)
(*                                                                         *)
(* Text is modelled as a sequence of tokens.  A token is one character,    *)
(* except for the literals the code treats as a unit (the anchor marker    *)
(* the lister splits on, month and weekday names, AM/PM).                  *)
(***************************************************************************)
EXTENDS Integers, Sequences, FiniteSets, TLC

VARIABLES
  store,     \* the remote document store under /units: code -> node
  inflight,  \* fire-and-forget writes issued and not yet applied
  call,      \* the operation in progress or last finished, with its outcome
  now,       \* datetime.now().year of the process
  site       \* what the lecture-capture server lists under sections/

vars == <<store, inflight, call, now, site>>

----------------------------------------------------------------------------
(* Python values *)

\* An optional argument: <<>> is None, <<v>> is the value v.
None == <<>>
Some(v) == <<v>>

\* Python truthiness of an optional int: None and 0 are falsy.
Truthy(x) == x # None /\ x[1] # 0

DigitChars == <<"0", "1", "2", "3", "4", "5", "6", "7", "8", "9">>
IsDigit(c) == \E i \in 1..10 : DigitChars[i] = c
LetterChars ==
  {"A", "B", "C", "D", "E", "F", "G", "H", "I", "J", "K", "L", "M", "N", "O", "P", "Q",
   "R", "S", "T", "U", "V", "W", "X", "Y", "Z", "a", "b", "c", "d", "e", "f", "g", "h",
   "i", "j", "k", "l", "m", "n", "o", "p", "q", "r", "s", "t", "u", "v", "w", "x", "y", "z"}
IsLetter(c) == c \in LetterChars

RECURSIVE StrNat(_)
\* str(n) for n >= 0
StrNat(n) == IF n < 10 THEN <<DigitChars[n + 1]>>
             ELSE StrNat(n \div 10) \o <<DigitChars[(n % 10) + 1]>>

\* str(n) of an int
Str(n) == IF n < 0 THEN <<"-">> \o StrNat(-n) ELSE StrNat(n)

\* text[a:] and text[0:b] of Python (0-based, clipped to the text)
SliceFrom(text, a) == SubSeq(text, a + 1, Len(text))
SliceTo(text, b) == SubSeq(text, 1, IF b < Len(text) THEN b ELSE Len(text))

Min(a, b) == IF a < b THEN a ELSE b

----------------------------------------------------------------------------
(* check_date *)

\* check_date(year, week, day): "ok", or the ValueError it raises.
check_date(year, week, day, nowYear) ==
  IF Truthy(year) /\ (year[1] < 15 \/ year[1] > nowYear)
    THEN "ValueError: Year"
  ELSE IF Truthy(week) /\ (week[1] < 1 \/ week[1] > 53)
    THEN "ValueError: Week"
  ELSE IF Truthy(day) /\ (day[1] < 1 \/ day[1] > 7)
    THEN "ValueError: Day"
  ELSE "ok"

\* The arguments check_date is called with.
YearArgs == {None} \cup {Some(y) : y \in {-1, 0, 1, 14, 15, 16, 17, 26, 27, 99, 2016, 2026, 2027}}
WeekArgs == {None} \cup {Some(w) : w \in {-1, 0, 1, 2, 52, 53, 54}}
DayArgs == {None} \cup {Some(d) : d \in {-1, 0, 1, 6, 7, 8}}
NowYears == {2016, 2026}

NoStore == <<>>
NoSite == [sections |-> <<>>]

InitDate ==
  /\ store = NoStore
  /\ inflight = {}
  /\ site = NoSite
  /\ now \in NowYears
  /\ call \in [op : {"check_date"}, year : YearArgs, week : WeekArgs, day : DayArgs,
               done : {FALSE}, outcome : {"pending"}]

CheckDate ==
  /\ call.op = "check_date"
  /\ ~call.done
  /\ call' = [call EXCEPT !.done = TRUE,
                          !.outcome = check_date(call.year, call.week, call.day, now)]
  /\ UNCHANGED <<store, inflight, now, site>>

NextDate == CheckDate

SpecDate == InitDate /\ [][NextDate]_vars

\* The ranges the docstring of check_date and the specification give.
YearInRange(y, nowYear) == 15 <= y /\ y <= nowYear % 100
WeekInRange(w) == 1 <= w /\ w <= 53
DayInRange(d) == 1 <= d /\ d <= 7

SuppliedOutOfRange(c, nowYear) ==
  \/ c.year # None /\ ~YearInRange(c.year[1], nowYear)
  \/ c.week # None /\ ~WeekInRange(c.week[1])
  \/ c.day # None /\ ~DayInRange(c.day[1])

\* C3: check_date raises a range error exactly when some supplied field is
\* outside its range (year in [15, current two-digit year], week in [1,53],
\* day in [1,7]); an absent field is not checked.
C3_RaisesExactlyWhenOutOfRange ==
  (call.op = "check_date" /\ call.done) =>
    ((call.outcome # "ok") <=> SuppliedOutOfRange(call, now))

----------------------------------------------------------------------------
(* get_hashes_from_dir *)

\* The literal the lister splits the page on.
Anchor == "<a href=\""

\* links[6:]: the number of leading segments dropped.
SkipSegments == 6
\* link[0:36]: the length of a directory hash.
HashLen == 36

\* text.find(Anchor, i): the first marker at or after place i, 0 if none.
FindAnchor(text, i) ==
  IF \E j \in i..Len(text) : text[j] = Anchor
    THEN CHOOSE j \in i..Len(text) :
           text[j] = Anchor /\ \A k \in i..(j - 1) : text[k] # Anchor
    ELSE 0

RECURSIVE SplitFrom(_, _)
SplitFrom(text, i) ==
  LET j == FindAnchor(text, i)
  IN IF j = 0 THEN <<SubSeq(text, i, Len(text))>>
     ELSE <<SubSeq(text, i, j - 1)>> \o SplitFrom(text, j + 1)

\* page_text.split("<a href=\""): the segments between the markers, the text
\* before the first marker included.
Split(text) == SplitFrom(text, 1)

Reverse(s) == [i \in 1..Len(s) |-> s[Len(s) + 1 - i]]

\* The lister without links.reverse(): the candidates in page order.
get_hashes_from_dir_NoReverse(page) ==
  LET links == SliceFrom(Split(page), SkipSegments)
  IN [i \in 1..Len(links) |-> SliceTo(links[i], HashLen)]

\* get_hashes_from_dir(url), given the page the url serves.
get_hashes_from_dir(page) ==
  LET links == Reverse(SliceFrom(Split(page), SkipSegments))
  IN [i \in 1..Len(links) |-> SliceTo(links[i], HashLen)]

\* The most anchors on a page given to the lister alone.
MaxAnchors == 8

Repeat(c, n) == [i \in 1..n |-> c]
\* A directory name of 36 characters, all c.
HashOf(c) == Repeat(c, HashLen)
\* The rest of an anchor after the name: /">name/</a>
AnchorTail == <<"/", "\"", ">">>

\* What may follow an anchor marker: a sort link, a directory anchor, and a
\* directory name that ends the segment.
SegChoices == {<<"?", "C", "=", "N">>, HashOf("a") \o AnchorTail, HashOf("b")}
Preambles == {<<>>, <<"<", "p", ">">>}

RECURSIVE Join(_)
\* The page text in which every segment follows an anchor marker.
Join(segs) == IF segs = <<>> THEN <<>>
              ELSE <<Anchor>> \o Head(segs) \o Join(Tail(segs))

ListerPages ==
  {pre \o Join(segs) : pre \in Preambles,
                       segs \in UNION {[1..n -> SegChoices] : n \in 0..MaxAnchors}}

InitLister ==
  /\ store = NoStore
  /\ inflight = {}
  /\ site = NoSite
  /\ now \in {2016}
  /\ call \in [op : {"get_hashes_from_dir"}, page : ListerPages,
               done : {FALSE}, result : {<<>>}]

GetHashesFromDir ==
  /\ call.op = "get_hashes_from_dir"
  /\ ~call.done
  /\ call' = [call EXCEPT !.done = TRUE, !.result = get_hashes_from_dir(call.page)]
  /\ UNCHANGED <<store, inflight, now, site>>

NextLister == GetHashesFromDir

SpecLister == InitLister /\ [][NextLister]_vars

\* The places of the anchor markers on a page.
MarkerCount(page) == Cardinality({i \in DOMAIN page : page[i] = Anchor})
MarkerPos(page, j) ==
  CHOOSE p \in DOMAIN page :
    page[p] = Anchor /\ Cardinality({i \in 1..p : page[i] = Anchor}) = j
\* The 36 characters that follow the j-th marker (fewer at the end of the page).
Following36(page, j) ==
  LET p == MarkerPos(page, j)
  IN SubSeq(page, p + 1, Min(p + 36, Len(page)))
\* The same, cut at the next marker.
FollowingName(page, j) ==
  LET p == MarkerPos(page, j)
      q == IF j < MarkerCount(page) THEN MarkerPos(page, j + 1) - 1 ELSE Len(page)
  IN SubSeq(page, p + 1, Min(p + 36, q))

\* C4 as stated: a page with N > 6 anchor markers gives exactly N-6
\* candidates, in reverse order of appearance, each the first 36 characters
\* following its marker.
C4_ReturnsNMinus6 ==
  (call.op = "get_hashes_from_dir" /\ call.done /\ MarkerCount(call.page) > 6) =>
    LET n == MarkerCount(call.page)
    IN /\ Len(call.result) = n - 6
       /\ \A k \in 1..(n - 6) : call.result[k] = Following36(call.page, n + 1 - k)

\* C4 amended: a page with N > 6 anchor markers gives exactly N-5 candidates
\* (the six segments dropped are the text before the first marker and the
\* first five anchors), in reverse order of appearance, each the first 36
\* characters following its marker, cut at the next marker.
C4_ReturnsNMinus5 ==
  (call.op = "get_hashes_from_dir" /\ call.done /\ MarkerCount(call.page) > 6) =>
    LET n == MarkerCount(call.page)
    IN /\ Len(call.result) = n - 5
       /\ \A k \in 1..(n - 5) : call.result[k] = FollowingName(call.page, n + 1 - k)

\* A page of 8 anchors has been listed: three candidates, the last anchor
\* first, one cut to 36 characters and one shorter than 36.
C4_Witness ==
  /\ call.op = "get_hashes_from_dir" /\ call.done
  /\ MarkerCount(call.page) = 8
  /\ Len(call.result) = 3
  /\ call.result[1] = HashOf("a")
  /\ call.result[2] = <<"?", "C", "=", "N">>
  /\ call.result[3] = HashOf("b")

----------------------------------------------------------------------------
(* LectureXML.get_lecture_time_date *)

MonthAbbr == <<"Jan", "Feb", "Mar", "Apr", "May", "Jun",
               "Jul", "Aug", "Sep", "Oct", "Nov", "Dec">>
MonthName == <<"January", "February", "March", "April", "May", "June", "July",
               "August", "September", "October", "November", "December">>
\* datetime.weekday(): 0 is Monday.
DayName == <<"Monday", "Tuesday", "Wednesday", "Thursday", "Friday",
             "Saturday", "Sunday">>

DigitVal(c) == (CHOOSE i \in 1..10 : DigitChars[i] = c) - 1
RECURSIVE IntOf(_)
\* int(text) of a text of digits
IntOf(text) == IF text = <<>> THEN 0
               ELSE (10 * IntOf(SubSeq(text, 1, Len(text) - 1))) + DigitVal(text[Len(text)])

\* %d, %H, %I, %M, %S: two digits, zero padded.
Pad2(n) == IF n < 10 THEN <<"0">> \o StrNat(n) ELSE StrNat(n)

IsSeparator(c) == c \in {"-", " ", ":"}
\* The place of the k-th separator of the text; 0 and Len+1 bound the fields.
SeparatorPos(text, k) ==
  IF k = 0 THEN 0
  ELSE IF k > Cardinality({i \in DOMAIN text : IsSeparator(text[i])}) THEN Len(text) + 1
  ELSE CHOOSE p \in DOMAIN text :
         IsSeparator(text[p]) /\ Cardinality({i \in 1..p : IsSeparator(text[i])}) = k
Field(text, k) == SubSeq(text, SeparatorPos(text, k - 1) + 1, SeparatorPos(text, k) - 1)

\* datetime.strptime(text, "%d-%b-%Y %H:%M:%S")
strptime(text) ==
  [d |-> IntOf(Field(text, 1)),
   mon |-> CHOOSE m \in 1..12 : <<MonthAbbr[m]>> = Field(text, 2),
   y |-> IntOf(Field(text, 3)),
   H |-> IntOf(Field(text, 4)),
   M |-> IntOf(Field(text, 5)),
   S |-> IntOf(Field(text, 6))]

IsLeap(y) == y % 4 = 0 /\ (y % 100 # 0 \/ y % 400 = 0)
DaysBeforeMonth == <<0, 31, 59, 90, 120, 151, 181, 212, 243, 273, 304, 334>>
DaysInMonth(y, m) ==
  IF m = 2 THEN (IF IsLeap(y) THEN 29 ELSE 28)
  ELSE IF m \in {4, 6, 9, 11} THEN 30 ELSE 31

\* date.toordinal(): 1 is 1 January of year 1.
ymd2ord(y, m, d) ==
  LET py == y - 1
  IN (py * 365) + (py \div 4) - (py \div 100) + (py \div 400)
     + DaysBeforeMonth[m] + (IF m > 2 /\ IsLeap(y) THEN 1 ELSE 0) + d

\* date.fromordinal(n)
ord2ymd(ord) ==
  LET n0 == ord - 1
      n400 == n0 \div 146097
      r400 == n0 % 146097
      n100 == r400 \div 36524
      r100 == r400 % 36524
      n4 == r100 \div 1461
      r4 == r100 % 1461
      n1 == r4 \div 365
      n == r4 % 365
      year == (n400 * 400) + 1 + (n100 * 100) + (n4 * 4) + n1
  IN IF n1 = 4 \/ n100 = 4 THEN [y |-> year - 1, mon |-> 12, d |-> 31]
     ELSE LET leap == IF n1 = 3 /\ (n4 # 24 \/ n100 = 3) THEN 1 ELSE 0
              guess == (n + 50) \div 32
              before == DaysBeforeMonth[guess] + (IF guess > 2 THEN leap ELSE 0)
              month == IF before > n THEN guess - 1 ELSE guess
              preceding == IF before > n
                             THEN DaysBeforeMonth[month] + (IF month > 2 THEN leap ELSE 0)
                             ELSE before
          IN [y |-> year, mon |-> month, d |-> n - preceding + 1]

\* The addition left out: the start timestamp itself.
AddMinutes_NoOffset(t, minutes) == t

\* t + timedelta(minutes=minutes)
AddMinutes(t, minutes) ==
  LET secs == (t.H * 3600) + (t.M * 60) + t.S + (minutes * 60)
      date == ord2ymd(ymd2ord(t.y, t.mon, t.d) + (secs \div 86400))
      rest == secs % 86400
  IN [d |-> date.d, mon |-> date.mon, y |-> date.y,
      H |-> rest \div 3600, M |-> (rest % 3600) \div 60, S |-> rest % 60]

weekday(t) == (ymd2ord(t.y, t.mon, t.d) + 6) % 7

\* time.strftime("%d %B %Y ")
strftime_date(t) ==
  Pad2(t.d) \o <<" ", MonthName[t.mon], " ">> \o StrNat(t.y) \o <<" ">>

\* time.strftime("%I%p %A")
strftime_time(t) ==
  Pad2(IF t.H % 12 = 0 THEN 12 ELSE t.H % 12)
    \o <<IF t.H < 12 THEN "AM" ELSE "PM", " ", DayName[weekday(t) + 1]>>

\* get_lecture_time_date, given the text of start-timestamp: <<time, date>>.
get_lecture_time_date(text) ==
  LET t == AddMinutes(strptime(text), 2)
      time == strftime_time(t)
  IN <<IF time[1] = "0" THEN SliceFrom(time, 1) ELSE time, strftime_date(t)>>

\* The start timestamps of the lecture descriptors.
Stamps ==
  {t \in [y : {2015, 2016}, mon : {2, 7, 12}, d : {1, 9, 28, 29, 31},
          H : {0, 8, 9, 11, 12, 13, 23}, M : {0, 57, 58, 59}, S : {0, 59}] :
     t.d <= DaysInMonth(t.y, t.mon)}

\* The text of a start-timestamp field, e.g. 29-Jul-2015 09:00:00.
StampText(t) ==
  Pad2(t.d) \o <<"-", MonthAbbr[t.mon], "-">> \o StrNat(t.y) \o <<" ">>
    \o Pad2(t.H) \o <<":">> \o Pad2(t.M) \o <<":">> \o Pad2(t.S)

InitTime ==
  /\ store = NoStore
  /\ inflight = {}
  /\ site = NoSite
  /\ now \in {2016}
  /\ call \in {[op |-> "get_lecture_time_date", stamp |-> t, text |-> StampText(t),
                done |-> FALSE, result |-> <<>>] : t \in Stamps}

GetLectureTimeDate ==
  /\ call.op = "get_lecture_time_date"
  /\ ~call.done
  /\ call' = [call EXCEPT !.done = TRUE, !.result = get_lecture_time_date(call.text)]
  /\ UNCHANGED <<store, inflight, now, site>>

NextTime == GetLectureTimeDate

SpecTime == InitTime /\ [][NextTime]_vars

\* The instant 2 minutes after t, by carrying minute into hour into day into
\* month into year.
TwoMinutesLater(t) ==
  LET carryH == t.M + 2 >= 60
      h == IF carryH THEN t.H + 1 ELSE t.H
      carryD == h = 24
      carryM == carryD /\ t.d = DaysInMonth(t.y, t.mon)
      carryY == carryM /\ t.mon = 12
  IN [y |-> IF carryY THEN t.y + 1 ELSE t.y,
      mon |-> IF carryY THEN 1 ELSE IF carryM THEN t.mon + 1 ELSE t.mon,
      d |-> IF carryM THEN 1 ELSE IF carryD THEN t.d + 1 ELSE t.d,
      H |-> h % 24, M |-> (t.M + 2) % 60, S |-> t.S]

\* The weekday of a date by Zeller's congruence: 0 is Saturday.
Zeller(t) ==
  LET m == IF t.mon < 3 THEN t.mon + 12 ELSE t.mon
      y == IF t.mon < 3 THEN t.y - 1 ELSE t.y
  IN (t.d + ((13 * (m + 1)) \div 5) + (y % 100) + ((y % 100) \div 4)
        + ((y \div 100) \div 4) + (5 * (y \div 100))) % 7
ZellerName == <<"Saturday", "Sunday", "Monday", "Tuesday", "Wednesday",
                "Thursday", "Friday">>

\* C10: get_lecture_time_date returns the display pair of the instant 2
\* minutes after the start timestamp: the time is the 12-hour-clock hour
\* without a leading zero, AM or PM, a space and the weekday name; the date is
\* the day, the month name and the year; hour, weekday and date roll over
\* when the 2 minutes cross an hour or midnight.
C10_DisplaysTwoMinutesLater ==
  (call.op = "get_lecture_time_date" /\ call.done) =>
    LET e == TwoMinutesLater(call.stamp)
        h12 == IF e.H \in {0, 12} THEN 12 ELSE IF e.H > 12 THEN e.H - 12 ELSE e.H
    IN /\ call.result[1] = StrNat(h12) \o <<IF e.H >= 12 THEN "PM" ELSE "AM", " ",
                                             ZellerName[Zeller(e) + 1]>>
       /\ \E day \in {StrNat(e.d), <<"0">> \o StrNat(e.d)} :
            call.result[2] = day \o <<" ", MonthName[e.mon], " ">> \o StrNat(e.y) \o <<" ">>

\* A lecture starting at 23:59 on 31 December 2015 has been shown: at 12AM
\* on Friday 1 January 2016, the hour, the day, the month and the year
\* having rolled over.
C10_Witness ==
  /\ call.op = "get_lecture_time_date" /\ call.done
  /\ call.text = <<"3", "1", "-", "Dec", "-", "2", "0", "1", "5", " ",
                   "2", "3", ":", "5", "9", ":", "0", "0">>
  /\ call.result = << <<"1", "2", "AM", " ", "Friday">>,
                      <<"0", "1", " ", "January", " ", "2", "0", "1", "6", " ">> >>

\* The examples of the specification: 29-Jul-2015 09:00:00 is shown as
\* 9AM Wednesday, 29 July 2015, and 29-Jul-2015 08:59:00 as 9AM Wednesday.
C10_Example0900 ==
  /\ call.op = "get_lecture_time_date" /\ call.done
  /\ call.text = <<"2", "9", "-", "Jul", "-", "2", "0", "1", "5", " ",
                   "0", "9", ":", "0", "0", ":", "0", "0">>
  /\ call.result = << <<"9", "AM", " ", "Wednesday">>,
                      <<"2", "9", " ", "July", " ", "2", "0", "1", "5", " ">> >>
C10_Example0859 ==
  /\ call.op = "get_lecture_time_date" /\ call.done
  /\ call.stamp = [y |-> 2015, mon |-> 7, d |-> 29, H |-> 8, M |-> 59, S |-> 0]
  /\ call.result[1] = <<"9", "AM", " ", "Wednesday">>

----------------------------------------------------------------------------
(* The lecture-capture server *)

\* A call's outcome: the value returned, or the exception raised.
Return(v) == [err |-> "ok", val |-> v]
Raise(e) == [err |-> e, val |-> <<>>]

\* The most directories a listing page of the server names.
MaxListing == 3

SectionIds == {"a", "b", "c", "e", "f"}
LectureIds == {"p", "q", "r"}

CITS3002 == <<"C", "I", "T", "S", "3", "0", "0", "2">>
CITS9999 == <<"C", "I", "T", "S", "9", "9", "9", "9">>

\* sections/{hash}/section.xml of each section directory: the nested fields
\* term/name, name, course/identifier and portal/url, or the failed fetch.
SectionFile(id) ==
  CASE id = "a" -> [status |-> "ok", term |-> <<"2", "0", "1", "5">>,
                    name |-> CITS3002 \o <<" ", "Standard semester ", "1">>,
                    identifier |-> CITS3002, url |-> "u1"]
    [] id = "b" -> [status |-> "ok", term |-> <<"2", "0", "1", "6">>,
                    name |-> CITS3002 \o <<" ", "Standard semester ", "2">>,
                    identifier |-> CITS3002, url |-> "u2"]
    [] id = "c" -> [status |-> "ok", term |-> <<"2", "0", "1", "5">>,
                    name |-> <<"C", "I", "T", " ", "S", "u", "m", "m", "e", "r">>,
                    identifier |-> <<"C", "I", "T", "3", "0", "0", "2", "X">>,
                    url |-> "u1"]
    [] id = "e" -> [status |-> "ok", term |-> <<"2", "0", "1", "5">>,
                    name |-> CITS3002 \o <<"X", " ", "Standard semester ", "1">>,
                    identifier |-> CITS3002 \o <<"X">>, url |-> "u2"]
    [] OTHER -> [status |-> "HTTPError"]

\* {year}{week}/{day}/{hash}/presentation.xml of each lecture directory: the
\* fields name, start-timestamp and location of presentation-properties.
LectureFile(id) ==
  CASE id = "p" -> [status |-> "ok", name |-> CITS3002 \o <<" ", "L", "1">>,
                    stamp |-> StampText([y |-> 2015, mon |-> 7, d |-> 29,
                                         H |-> 9, M |-> 0, S |-> 0]),
                    location |-> <<"G", "0", "1">>]
    [] id = "q" -> [status |-> "ok", name |-> CITS9999 \o <<" ", "L", "1">>,
                    stamp |-> StampText([y |-> 2015, mon |-> 7, d |-> 29,
                                         H |-> 8, M |-> 59, S |-> 0]),
                    location |-> <<"G", "0", "2">>]
    [] OTHER -> [status |-> "HTTPError"]

\* The page of a directory listing: the four sort links and the parent
\* directory of the server's index page, then one anchor per directory.
ListingPage(ids) ==
  <<"<", "p", ">">>
    \o Join([i \in 1..4 |-> <<"?", "C", "=", "N">>])
    \o Join(<< <<"/">> >>)
    \o Join([i \in 1..Len(ids) |-> HashOf(ids[i]) \o AnchorTail])

\* The sequences of at most n different members of S.
Listings(S, n) ==
  {l \in UNION {[1..k -> S] : k \in 0..n} :
     \A i, j \in DOMAIN l : i # j => l[i] # l[j]}

----------------------------------------------------------------------------
(* UnitXML *)

\* UnitXML(unitHash): the parsed section.xml, or the error of the fetch.
UnitXML(unitHash) ==
  IF \E id \in SectionIds : HashOf(id) = unitHash /\ SectionFile(id).status = "ok"
    THEN Return(SectionFile(CHOOSE id \in SectionIds : HashOf(id) = unitHash))
    ELSE Raise("HTTPError")

get_year(xml) == SliceFrom(xml.term, 2)

\* get_sem: the character after "Standard semester ", None without it.
get_sem(xml) ==
  LET at == {i \in DOMAIN xml.name : xml.name[i] = "Standard semester "}
  IN IF at = {} THEN Return(None)
     ELSE LET i == CHOOSE i \in at : \A k \in at : i <= k
          IN IF i < Len(xml.name) /\ xml.name[i + 1] # "Standard semester "
               THEN Return(Some(xml.name[i + 1]))
               ELSE Raise("IndexError")

get_unit_code(xml) == xml.identifier
get_unit_url(xml) == xml.url

----------------------------------------------------------------------------
(* get_semester_units and add_semester_units *)

\* validUnit.match(unitCode) for validUnit = [a-zA-Z]{4}[0-9]{4}: re.match
\* anchors the pattern at the start of the string only.
validUnit_match(unitCode) ==
  /\ Len(unitCode) >= 8
  /\ \A i \in 1..4 : IsLetter(unitCode[i])
  /\ \A i \in 5..8 : IsDigit(unitCode[i])

RECURSIVE UnitsLoop_NoYearFilter(_, _, _, _)
\* The loop without the comparison of xml.get_year() with the year.
UnitsLoop_NoYearFilter(unitHashes, i, year, sem_units) ==
  IF i > Len(unitHashes) THEN Return(sem_units)
  ELSE LET xml == UnitXML(unitHashes[i])
       IN IF xml.err # "ok" THEN Raise(xml.err)
          ELSE IF ~validUnit_match(get_unit_code(xml.val))
            THEN UnitsLoop_NoYearFilter(unitHashes, i + 1, year, sem_units)
          ELSE UnitsLoop_NoYearFilter(unitHashes, i + 1, year,
                 Append(sem_units, <<get_unit_code(xml.val), get_unit_url(xml.val)>>))

RECURSIVE UnitsLoop(_, _, _, _)
\* The loop of get_semester_units from its i-th hash on.
UnitsLoop(unitHashes, i, year, sem_units) ==
  IF i > Len(unitHashes) THEN Return(sem_units)
  ELSE LET xml == UnitXML(unitHashes[i])
       IN IF xml.err # "ok" THEN Raise(xml.err)
          ELSE IF get_year(xml.val) # year
            THEN UnitsLoop(unitHashes, i + 1, year, sem_units)
          ELSE IF ~validUnit_match(get_unit_code(xml.val))
            THEN UnitsLoop(unitHashes, i + 1, year, sem_units)
          ELSE UnitsLoop(unitHashes, i + 1, year,
                 Append(sem_units, <<get_unit_code(xml.val), get_unit_url(xml.val)>>))

\* get_semester_units(year, semester), given the page sections/ serves.
get_semester_units(year, semester, page, nowYear) ==
  LET checked == check_date(Some(year), None, None, nowYear)
  IN IF checked # "ok" THEN Raise(checked)
     ELSE UnitsLoop(get_hashes_from_dir(page), 1, Str(year), <<>>)

\* FB.put_async('/units', code, {'URL': url}) and
\* FB.post_async('/units/' + code, data): the request sent to the store.
PutUnit(code, url) == [kind |-> "put", code |-> code, data |-> url]
PostLecture(code, data) == [kind |-> "post", code |-> code, data |-> data]

\* The store once a request is applied.  A PUT replaces the whole node at
\* /units/{code}; a POST adds a child to it.
Apply(st, w) ==
  [c \in DOMAIN st \cup {w.code} |->
     IF c # w.code THEN st[c]
     ELSE IF w.kind = "put" THEN [URL |-> Some(w.data), lectures |-> {}]
     ELSE IF c \in DOMAIN st
       THEN [st[c] EXCEPT !.lectures = @ \cup {w.data}]
     ELSE [URL |-> None, lectures |-> {w.data}]]

\* The requests add_semester_units sends for the units found.
UnitPuts(sem_units) ==
  {PutUnit(sem_units[i][1], sem_units[i][2]) : i \in DOMAIN sem_units}

----------------------------------------------------------------------------
(* LectureXML and get_days_lectures *)

\* The names bound in the module's namespace once it is loaded: its imports,
\* its two module-level assignments, and its functions and classes.
GlobalNames ==
  {"urllib", "ET", "datetime", "timedelta", "re", "os", "tqdm", "firebase", "auth",
   "BASE_URL", "FB", "get_hashes_from_dir", "check_date", "UnitXML", "LectureXML",
   "get_semester_units", "add_semester_units", "get_days_lectures"}

\* The day the server's lecture directories belong to: 2015, week 31, day 3.
ServedDay == <<15, 31, 3>>
\* The path of a lecture directory under BASE_URL.
ServedDir(id) ==
  Pad2(ServedDay[1]) \o Pad2(ServedDay[2]) \o <<"/">> \o StrNat(ServedDay[3])
    \o <<"/">> \o HashOf(id) \o <<"/">>

\* LectureXML(year, week, day, lectureHash): the directory url and the parsed
\* presentation.xml, or the exception raised.
LectureXML(year, week, day, lectureHash) ==
  IF "check_year_week_day" \notin GlobalNames THEN Raise("NameError")
  ELSE LET dirPath == Str(year) \o Str(week) \o <<"/">> \o Str(day) \o <<"/">>
                        \o lectureHash \o <<"/">>
       IN IF \E id \in LectureIds :
               ServedDir(id) = dirPath /\ LectureFile(id).status = "ok"
            THEN Return([url |-> <<"BASE_URL">> \o dirPath,
                         tree |-> LectureFile(CHOOSE id \in LectureIds :
                                                ServedDir(id) = dirPath)])
            ELSE Raise("HTTPError")

get_lecture_unit(xml) == SliceTo(xml.tree.name, 8)
get_lecture_video_url(xml) == xml.url \o <<"audio-vga.m4v">>
get_lecture_location(xml) == xml.tree.location

\* The record get_days_lectures builds for a lecture.
LectureData(xml) ==
  [URL |-> get_lecture_video_url(xml),
   time |-> get_lecture_time_date(xml.tree.stamp)[1],
   date |-> get_lecture_time_date(xml.tree.stamp)[2],
   location |-> get_lecture_location(xml)]

RECURSIVE LecturesLoop(_, _, _, _, _, _, _)
\* The loop of get_days_lectures from its i-th link on: the posts sent, and
\* the exception that ended it, if any.
LecturesLoop(lec_links, i, year, week, day, lec_db, posts) ==
  IF i > Len(lec_links) THEN Return(posts)
  ELSE LET xml == LectureXML(year, week, day, lec_links[i])
       IN IF xml.err = "HTTPError"
            THEN LecturesLoop(lec_links, i + 1, year, week, day, lec_db, posts)
          ELSE IF xml.err # "ok" THEN [err |-> xml.err, val |-> posts]
          ELSE IF get_lecture_unit(xml.val) \notin lec_db
            THEN LecturesLoop(lec_links, i + 1, year, week, day, lec_db, posts)
          ELSE IF ~({"URL", "time", "date", "location"} \subseteq GlobalNames)
            THEN [err |-> "NameError", val |-> posts]
          ELSE LecturesLoop(lec_links, i + 1, year, week, day, lec_db,
                 Append(posts, PostLecture(get_lecture_unit(xml.val), LectureData(xml.val))))

\* The listing of the day's directory: urlopen fails for a day the server
\* does not have.
DayPage(year, week, day, lectures) ==
  IF <<year, week, day>> = ServedDay THEN Return(ListingPage(lectures))
  ELSE Raise("HTTPError")

\* get_days_lectures(year, week, day), given the store and the day's
\* lecture directories: the posts sent, and the exception raised, if any.
get_days_lectures(year, week, day, st, lectures) ==
  IF DOMAIN st = {} THEN Raise("AttributeError")
  ELSE IF "check_year_week_day" \notin GlobalNames THEN Raise("NameError")
  ELSE LET page == DayPage(year, week, day, lectures)
       IN IF page.err # "ok" THEN Raise(page.err)
          ELSE LecturesLoop(get_hashes_from_dir(page.val), 1, year, week, day,
                            DOMAIN st, <<>>)

----------------------------------------------------------------------------
(* The system: crawls, and the store applying the requests sent to it *)

Years == {14, 15, 16}
Semesters == {1, 2}
\* The days get_days_lectures is asked for: <<year, week, day>>.
LectureDays == {<<15, 31, 3>>, <<15, 54, 3>>}

\* A lecture record of CITS3002 that the store holds from an earlier day.
StoredLecture ==
  [URL |-> <<"BASE_URL">> \o ServedDir("p") \o <<"audio-vga.m4v">>,
   time |-> <<"9", "AM", " ", "Wednesday">>,
   date |-> <<"2", "9", " ", "July", " ", "2", "0", "1", "5", " ">>,
   location |-> <<"G", "0", "1">>]

\* The store when the script starts: nothing under /units, or CITS3002 with
\* one lecture record.
InitStores ==
  {NoStore, Apply(Apply(NoStore, PutUnit(CITS3002, "u1")),
                  PostLecture(CITS3002, StoredLecture))}

\* The lecture directories the day's listing names, in the order of the page.
LectureListings == {<<"p", "q">>, <<"p", "r", "q">>}

Init ==
  /\ store \in InitStores
  /\ inflight = {}
  /\ now \in {2016}
  /\ site \in [sections : Listings(SectionIds, MaxListing)]
  /\ call = [op |-> "none"]

AddSemesterUnits ==
  \E year \in Years, semester \in Semesters :
    LET r == get_semester_units(year, semester, ListingPage(site.sections), now)
    IN /\ call' = [op |-> "add_semester_units", year |-> year, semester |-> semester,
                   err |-> r.err, sem_units |-> r.val]
       /\ inflight' = inflight \cup UnitPuts(r.val)
       /\ UNCHANGED <<store, now, site>>

GetDaysLectures ==
  \E ywd \in LectureDays, lectures \in LectureListings :
    LET r == get_days_lectures(ywd[1], ywd[2], ywd[3], store, lectures)
    IN /\ call' = [op |-> "get_days_lectures", year |-> ywd[1], week |-> ywd[2],
                   day |-> ywd[3], lectures |-> lectures, lec_db |-> DOMAIN store,
                   err |-> r.err, posts |-> r.val]
       /\ inflight' = inflight \cup {r.val[i] : i \in DOMAIN r.val}
       /\ UNCHANGED <<store, now, site>>

\* The store applies a request in flight; requests are applied in any order.
CompleteWrite ==
  \E w \in inflight :
    /\ store' = Apply(store, w)
    /\ inflight' = inflight \ {w}
    /\ UNCHANGED <<call, now, site>>

\* A request in flight is lost: nothing waits for it or retries it.
LoseWrite ==
  \E w \in inflight :
    /\ inflight' = inflight \ {w}
    /\ UNCHANGED <<store, call, now, site>>

Next == AddSemesterUnits \/ GetDaysLectures \/ CompleteWrite \/ LoseWrite

Spec == Init /\ [][Next]_vars

----------------------------------------------------------------------------
(* Properties of the crawls and of the store *)

\* The section and lecture directories in the order the lister returns them.
ListedSections == get_hashes_from_dir(ListingPage(site.sections))
ListedLectures == get_hashes_from_dir(ListingPage(call.lectures))
SectionOf(hash) == SectionFile(CHOOSE id \in SectionIds : HashOf(id) = hash)
LectureOf(hash) == LectureFile(CHOOSE id \in LectureIds : HashOf(id) = hash)

\* A unit code: exactly 4 letters followed by 4 digits.
IsUnitCode(code) ==
  /\ Len(code) = 8
  /\ \A i \in 1..4 : IsLetter(code[i])
  /\ \A i \in 5..8 : IsDigit(code[i])

\* The k-th smallest member of a set of numbers.
KthOf(S, k) == CHOOSE i \in S : Cardinality({j \in S : j <= i}) = k

\* C1: in get_days_lectures a lecture record is sent to /units/{unitCode}
\* only if the lecture's unit code is a key of the units read from the store,
\* a lecture of an unknown unit causes no write, and with the known units
\* {CITS3002} and the day's lectures of CITS3002 and CITS9999 exactly one
\* write happens.
C1_WritesOnlyKnownUnits ==
  (call.op = "get_days_lectures") =>
    /\ \A k \in DOMAIN call.posts : call.posts[k].code \in call.lec_db
    /\ (/\ call.lec_db = {CITS3002}
        /\ <<call.year, call.week, call.day>> = ServedDay
        /\ call.lectures = <<"p", "q">>)
         => Len(call.posts) = 1

\* C7: in get_days_lectures a failed fetch of one candidate is skipped
\* without a write and without ending the loop: every later candidate that
\* can be fetched and belongs to a known unit is still written.
C7_FailedFetchSkipsOneCandidate ==
  (call.op = "get_days_lectures" /\ call.lec_db # {}
     /\ <<call.year, call.week, call.day>> = ServedDay) =>
    \A i, j \in DOMAIN ListedLectures :
      (/\ i < j
       /\ LectureOf(ListedLectures[i]).status # "ok"
       /\ LectureOf(ListedLectures[j]).status = "ok"
       /\ SliceTo(LectureOf(ListedLectures[j]).name, 8) \in call.lec_db)
        => \E k \in DOMAIN call.posts :
             /\ call.posts[k].code = SliceTo(LectureOf(ListedLectures[j]).name, 8)
             /\ call.posts[k].data.location = LectureOf(ListedLectures[j]).location

\* C2: a lecture record under /units/{unitCode} is never changed or deleted:
\* every step keeps every lecture record of every unit.
C2_LectureRecordsKept ==
  [][\A c \in DOMAIN store :
       c \in DOMAIN store' /\ store[c].lectures \subseteq store'[c].lectures]_vars

\* C9: a unit is immutable once stored: no step changes the portal URL
\* stored for a unit code.
C9_UnitURLNeverChanges ==
  [][\A c \in DOMAIN store :
       store[c].URL # None => (c \in DOMAIN store' /\ store'[c].URL = store[c].URL)]_vars

\* The sections listed whose descriptor has the year asked for and a unit
\* code the pattern filter accepts, by their place in the lister's order.
Kept(listed, year) ==
  {i \in DOMAIN listed :
     /\ get_year(SectionOf(listed[i])) = Str(year)
     /\ validUnit_match(get_unit_code(SectionOf(listed[i])))}

C6_FilterAcceptsExactlyUnitCodes ==
  (call.op = "add_semester_units" /\ call.err = "ok") =>
    \A i \in DOMAIN ListedSections :
      LET xml == SectionOf(ListedSections[i])
      IN get_year(xml) = Str(call.year) =>
           ((\E k \in DOMAIN call.sem_units : call.sem_units[k][1] = xml.identifier)
              <=> IsUnitCode(xml.identifier))

\* C8: every pair get_semester_units(year, semester) returns belongs to a
\* listed section whose semester indicator is the semester asked for.
C8_ReturnsUnitsOfTheSemester ==
  (call.op = "add_semester_units" /\ call.err = "ok") =>
    \A k \in DOMAIN call.sem_units :
      \E i \in DOMAIN ListedSections :
        LET xml == SectionOf(ListedSections[i])
        IN /\ call.sem_units[k] = <<xml.identifier, xml.url>>
           /\ get_sem(xml) = Return(Some(Str(call.semester)[1]))

====
